---- MODULE Spec2Model ----
(***************************************************************************)
(* Acquisition and tremor classification of the MPU6050 programs:          *)
(*   variant "resting" : mpu6050_tremor_detection.py                       *)
(*   variant "action"  : spiral.py                                         *)
(* One run of a program is one behaviour: device initialisation, the       *)
(* fixed-rate acquisition loop into six bounded buffers, the spectral      *)
(* metrics, the threshold classification, and the artifacts written.       *)
(*                                                                         *)
(* Number representation.  Frequencies are Welch bin frequencies in units  *)
(* of 0.5 Hz (nperseg = 2*SAMPLE_RATE gives a 0.5 Hz grid).  A tremor      *)
(* ratio is the exact fraction [num, den] of two band powers; thresholds   *)
(* on ratios are in thousandths.  RMS of the acceleration is in 1/100      *)
(* m/s^2, RMS of the angular rate in deg/s.                                *)
(***************************************************************************)
EXTENDS Integers, Sequences, FiniteSets, TLC

\* ------------------------------------------------------------------ bounds
\* Samples per window (SAMPLE_RATE * WINDOW_SECONDS in the programs).
WINDOW_SIZE == 3
\* Largest power value of one PSD bin in the spectral specification.
MaxPower == 1

\* ------------------------------------------------- constants of the source
init_max_retries == 3
read_max_retries == 3
\* The threshold configuration in force: the values an operator has set.
\* spiral.py keeps them in module-level names, which its assessment, its
\* console text and its report read; ratios in thousandths, RMS of the
\* accelerometer in 1/100 m/s^2, of the gyroscope in deg/s.
VARIABLE thresholds

DefaultThresholds ==
  [RATIO_SIGNIFICANT |-> 350, RATIO_MILD |-> 200,
   RMS_ACCEL_SIGNIFICANT |-> 50, RMS_ACCEL_MILD |-> 35,
   RMS_GYRO_SIGNIFICANT |-> 18, RMS_GYRO_MILD |-> 10,
   RESTING_RATIO |-> 300, RESTING_MEAN_RATIO |-> 150]

RATIO_SIGNIFICANT == thresholds.RATIO_SIGNIFICANT

RATIO_MILD == thresholds.RATIO_MILD

RMS_ACCEL_SIGNIFICANT == thresholds.RMS_ACCEL_SIGNIFICANT

RMS_ACCEL_MILD == thresholds.RMS_ACCEL_MILD

RMS_GYRO_SIGNIFICANT == thresholds.RMS_GYRO_SIGNIFICANT

RMS_GYRO_MILD == thresholds.RMS_GYRO_MILD

Variants == {"resting", "action"}

Channels == <<"ax", "ay", "az", "gx", "gy", "gz">>

ChannelSet == {Channels[i] : i \in 1..Len(Channels)}

\* What the six register pairs hold while one tick is read: <<high, low>>
\* bytes per channel.  Two distinct measurements, differing in every channel.
DeviceSamples ==
  << [ax |-> <<0, 0>>,     ay |-> <<0, 1>>,   az |-> <<64, 0>>,
      gx |-> <<0, 0>>,     gy |-> <<0, 131>>, gz |-> <<1, 6>>],
     [ax |-> <<255, 255>>, ay |-> <<128, 0>>, az |-> <<63, 255>>,
      gx |-> <<127, 255>>, gy |-> <<255, 125>>, gz |-> <<254, 250>>] >>

\* ------------------------------------------------------- reading a register
\* Number of attempts one register read gets: read_word_2c_safe loops
\* range(max_retries); read_word_2c of the resting variant reads once.
ReadAttempts(v) == IF v = "action" THEN read_max_retries ELSE 1

\* Number of attempts device initialisation gets: init_mpu6050 loops
\* range(max_retries); the resting variant runs the writes once, unguarded.
InitAttempts(v) == IF v = "action" THEN init_max_retries ELSE 1

\* Two's-complement decoding of a register pair.
read_word_2c(high, low) ==
  LET val == high * 256 + low
  IN  IF val >= 32768 THEN -((65535 - val) + 1) ELSE val

read_word_2c_safe_strict(high, low) ==
  LET val == high * 256 + low
  IN  IF val > 32768 THEN -((65535 - val) + 1) ELSE val

\* The decoding inside the retrying reader of the action variant.
read_word_2c_safe(high, low) ==
  LET val == high * 256 + low
  IN  IF val >= 32768 THEN -((65535 - val) + 1) ELSE val

\* The reader each program calls for a register pair.
ReadWord(v, high, low) ==
  IF v = "action" THEN read_word_2c_safe(high, low) ELSE read_word_2c(high, low)

\* Physical units.  Acceleration raw/16384*9.81 in units of 1/1638400 m/s^2,
\* angular rate raw/131.0 in units of 1/1310 deg/s.
ConvertAccel(raw) == raw * 981

ConvertGyro(raw) == raw * 10

Convert(c, raw) ==
  IF c \in {"ax", "ay", "az"} THEN ConvertAccel(raw) ELSE ConvertGyro(raw)

\* collections.deque(maxlen = n).append
DequeAppend(q, x, n) ==
  IF Len(q) >= n THEN Tail(q) \o <<x>> ELSE Append(q, x)

WhileCondShort(len) == len < WINDOW_SIZE - 1

\* while len(buffer_ax) < WINDOW_SIZE
WhileCond(len) == len < WINDOW_SIZE

\* ------------------------------------------------------- spectral analysis
\* A subsample of the Welch frequency grid (units of 0.5 Hz) that keeps both
\* sides of every band edge the programs test: 4 Hz, 6 Hz, 10 Hz, 15 Hz.
Freqs == <<0, 7, 8, 12, 13, 20, 21, 30, 31>>

NBins == Len(Freqs)

Hz(n) == 2 * n

RECURSIVE SumOver(_, _)
\* np.sum(psd[mask]) for the mask given as a set of bin indices
SumOver(psd, idx) ==
  IF idx = {} THEN 0
  ELSE LET i == CHOOSE j \in idx : TRUE
       IN  psd[i] + SumOver(psd, idx \ {i})

TremorBandOpen == {i \in 1..NBins : Freqs[i] >= Hz(4)}

\* (freqs >= 4) & (freqs <= 6)
TremorBand == {i \in 1..NBins : Freqs[i] >= Hz(4) /\ Freqs[i] <= Hz(6)}

\* freqs <= 15
TotalBand == {i \in 1..NBins : Freqs[i] <= Hz(15)}

\* freqs <= 10
PeakBand == {i \in 1..NBins : Freqs[i] <= Hz(10)}

tremor_power(psd) == SumOver(psd, TremorBand)

total_power(psd) == SumOver(psd, TotalBand)

\* tremor_power / total_power if total_power > 0 else 0
tremor_ratio(psd) ==
  IF total_power(psd) > 0
  THEN [num |-> tremor_power(psd), den |-> total_power(psd)]
  ELSE [num |-> 0, den |-> 1]

peak_idx_last(psd) ==
  CHOOSE i \in PeakBand :
    /\ \A j \in PeakBand : psd[j] <= psd[i]
    /\ \A j \in PeakBand : j > i => psd[j] < psd[i]

\* np.argmax over the bins <= 10 Hz: first index holding the maximum
peak_idx(psd) ==
  CHOOSE i \in PeakBand :
    /\ \A j \in PeakBand : psd[j] <= psd[i]
    /\ \A j \in PeakBand : j < i => psd[j] < psd[i]

peak_freq(psd) == Freqs[peak_idx(psd)]

\* ----------------------------------------------------------- classification
\* ratio > milli/1000
RatioGT(r, milli) == r.num * 1000 > milli * r.den

\* a > b for two ratios
RatioGreater(a, b) == a.num * b.den > b.num * a.den

\* (a + b) / 2 > milli/1000
CombinedGT(a, b, milli) ==
  (a.num * b.den + b.num * a.den) * 1000 > 2 * milli * a.den * b.den

\* 4 <= f <= 6
InTremorBand(f) == Hz(4) <= f /\ f <= Hz(6)

\* (ratio_accel > 0.3 or ratio_gyro > 0.3) and (4 <= pf_accel <= 6 or
\* 4 <= pf_gyro <= 6), the test of the resting assessment
resting_detected(ra, rg, pfa, pfg) ==
  /\ (RatioGT(ra, 300) \/ RatioGT(rg, 300))
  /\ (InTremorBand(pfa) \/ InTremorBand(pfg))

RestingStatusBothSensors(ra, rg, pfa, pfg) ==
  IF (RatioGT(ra, 300) /\ InTremorBand(pfa)) \/ (RatioGT(rg, 300) /\ InTremorBand(pfg))
  THEN "TREMOR DETECTED"
  ELSE IF CombinedGT(ra, rg, 150) THEN "POSSIBLE TREMOR" ELSE "NO TREMOR"

RestingStatusDip(ra, rg, pfa, pfg) ==
  IF resting_detected(ra, rg, pfa, pfg) THEN "TREMOR DETECTED"
  ELSE IF CombinedGT(ra, rg, 150) /\ ~RatioGT(ra, 300) THEN "POSSIBLE TREMOR"
  ELSE "NO TREMOR"

\* tremor_status of the resting variant
RestingStatus(ra, rg, pfa, pfg) ==
  IF resting_detected(ra, rg, pfa, pfg) THEN "TREMOR DETECTED"
  ELSE IF CombinedGT(ra, rg, 150) THEN "POSSIBLE TREMOR"
  ELSE "NO TREMOR"

\* the tremor type printed with the console assessment ("" : none printed)
ConsoleType(ra, rg, pfa, pfg) ==
  IF resting_detected(ra, rg, pfa, pfg)
  THEN IF RatioGreater(rg, ra) THEN "ROTATIONAL" ELSE "LINEAR"
  ELSE ""

ReportTypeTie(ra, rg, pfa, pfg) ==
  IF resting_detected(ra, rg, pfa, pfg)
  THEN IF ~RatioGreater(ra, rg) THEN "ROTATIONAL" ELSE "LINEAR"
  ELSE ""

\* the "Type:" line of the text report ("" : no such line)
ReportType(ra, rg, pfa, pfg) ==
  IF (RatioGT(ra, 300) \/ RatioGT(rg, 300))
     /\ (InTremorBand(pfa) \/ InTremorBand(pfg))
  THEN IF RatioGreater(rg, ra) THEN "ROTATIONAL" ELSE "LINEAR"
  ELSE ""

high_tremor_ratio(ra, rg) ==
  RatioGT(ra, RATIO_SIGNIFICANT) \/ RatioGT(rg, RATIO_SIGNIFICANT)

correct_frequency(pfa, pfg) == InTremorBand(pfa) \/ InTremorBand(pfg)

high_amplitude(rmsa, rmsg) ==
  rmsa > RMS_ACCEL_SIGNIFICANT \/ rmsg > RMS_GYRO_SIGNIFICANT

moderate_tremor_ratio(ra, rg) == RatioGT(ra, RATIO_MILD) \/ RatioGT(rg, RATIO_MILD)

moderate_amplitude(rmsa, rmsg) == rmsa > RMS_ACCEL_MILD \/ rmsg > RMS_GYRO_MILD

ActionStatusNoFrequency(ra, rg, pfa, pfg, rmsa, rmsg) ==
  IF correct_frequency(pfa, pfg) /\ (high_tremor_ratio(ra, rg) \/ high_amplitude(rmsa, rmsg))
  THEN "SIGNIFICANT ACTION TREMOR"
  ELSE IF moderate_tremor_ratio(ra, rg) \/ moderate_amplitude(rmsa, rmsg)
  THEN "MILD ACTION TREMOR"
  ELSE "NO SIGNIFICANT TREMOR"

\* tremor_status of the action variant
ActionStatus(ra, rg, pfa, pfg, rmsa, rmsg) ==
  IF correct_frequency(pfa, pfg) /\ (high_tremor_ratio(ra, rg) \/ high_amplitude(rmsa, rmsg))
  THEN "SIGNIFICANT ACTION TREMOR"
  ELSE IF correct_frequency(pfa, pfg)
          /\ (moderate_tremor_ratio(ra, rg) \/ moderate_amplitude(rmsa, rmsg))
  THEN "MILD ACTION TREMOR"
  ELSE "NO SIGNIFICANT TREMOR"

\* The status either program assigns, by variant.
Classify(v, ra, rg, pfa, pfg, rmsa, rmsg) ==
  IF v = "resting" THEN RestingStatus(ra, rg, pfa, pfg)
  ELSE ActionStatus(ra, rg, pfa, pfg, rmsa, rmsg)

AssessmentPenalisesJerk(v, ra, rg, pfa, pfg, rmsa, rmsg, smooth) ==
  [status |-> IF v = "action" /\ smooth > 20
                 /\ Classify(v, ra, rg, pfa, pfg, rmsa, rmsg) = "NO SIGNIFICANT TREMOR"
              THEN "MILD ACTION TREMOR"
              ELSE Classify(v, ra, rg, pfa, pfg, rmsa, rmsg),
   type   |-> IF v = "resting" THEN ConsoleType(ra, rg, pfa, pfg) ELSE "",
   smooth |-> v = "action" /\ smooth > 20]

\* What the OVERALL ASSESSMENT section prints: the status, the type line of
\* the resting program, and the action program's note on reduced smoothness
\* (smoothness_score > 2.0, the score in tenths).
Assessment(v, ra, rg, pfa, pfg, rmsa, rmsg, smooth) ==
  [status |-> Classify(v, ra, rg, pfa, pfg, rmsa, rmsg),
   type   |-> IF v = "resting" THEN ConsoleType(ra, rg, pfa, pfg) ELSE "",
   smooth |-> v = "action" /\ smooth > 20]

\* ------------------------------------------------------------------- state
VARIABLES
  variant,            \* which program runs
  patient_name,       \* what was typed at the prompt, "Unknown" if nothing
  previous,           \* the run before this one, when it analysed the same window
  pc,                 \* position of the run
  attempt,            \* loop index of the current init / read attempt
  handles,            \* bus connections opened so far (smbus2.SMBus(1))
  initialised,        \* wake-up and range configuration went through
  reg,                \* register pair being read in this tick, 1..6; 0: none
  device,             \* what the six register pairs hold during this tick
  words,              \* accel_x .. gyro_z decoded so far in this tick
  buffer,             \* buffer_ax .. buffer_gz, by channel
  sample_count,
  acquired,           \* history: register contents of every tick read completely
  retried,            \* history: some register read was tried again
  failure,            \* history: what ended the run abnormally, "none" if nothing
  psd_accel, psd_gyro,
  tremor_rms_accel, tremor_rms_gyro,
  smoothness_score,   \* mean jerk, in tenths (action program only)
  tremor_ratio_accel, tremor_ratio_gyro,
  peak_freq_accel, peak_freq_gyro,
  tremor_status,
  console,            \* the assessment printed: [written, status, type, smooth]
  raw_saved,          \* the .npz export of the window exists (action variant)
  plot,               \* the saved figure: [written, status, patient]
  report              \* the text report: [written, status, type]

acqVars == <<attempt, handles, initialised, reg, device, words, buffer, sample_count, acquired, retried>>

psdVars == <<psd_accel, psd_gyro, tremor_rms_accel, tremor_rms_gyro, smoothness_score>>

metricVars == <<tremor_ratio_accel, tremor_ratio_gyro, peak_freq_accel, peak_freq_gyro>>

outVars == <<tremor_status, console, raw_saved, plot, report>>

runVars == <<thresholds, patient_name, previous>>

vars == <<variant, runVars, pc, failure, acqVars, psdVars, metricVars, outVars>>

ZeroSpectrum == [i \in 1..NBins |-> 0]

ZeroRatio == [num |-> 0, den |-> 1]

NoRun == [ran |-> FALSE]

\* A first run with the thresholds as shipped and the name prompt left empty.
DefaultRun ==
  /\ thresholds = DefaultThresholds
  /\ patient_name = "Unknown"
  /\ previous = NoRun

NothingAnalysed ==
  /\ psd_accel = ZeroSpectrum /\ psd_gyro = ZeroSpectrum
  /\ tremor_rms_accel = 0 /\ tremor_rms_gyro = 0
  /\ smoothness_score = 0
  /\ tremor_ratio_accel = ZeroRatio /\ tremor_ratio_gyro = ZeroRatio
  /\ peak_freq_accel = 0 /\ peak_freq_gyro = 0

NothingReported ==
  /\ tremor_status = ""
  /\ console = [written |-> FALSE, status |-> "", type |-> "", smooth |-> FALSE]
  /\ raw_saved = FALSE
  /\ plot = [written |-> FALSE, status |-> "", patient |-> ""]
  /\ report = [written |-> FALSE, status |-> "", type |-> ""]

\* Nothing printed or written yet but, in spiral.py, the raw window.
OnlyRawSaved ==
  /\ tremor_status = ""
  /\ console = [written |-> FALSE, status |-> "", type |-> "", smooth |-> FALSE]
  /\ raw_saved = (variant = "action")
  /\ plot = [written |-> FALSE, status |-> "", patient |-> ""]
  /\ report = [written |-> FALSE, status |-> "", type |-> ""]

\* The state after the prompts, before the device is touched.
Init ==
  /\ variant \in Variants
  /\ DefaultRun
  /\ pc = "init"
  /\ attempt = 0 /\ handles = 0 /\ initialised = FALSE
  /\ reg = 0 /\ device = DeviceSamples[1] /\ words = <<>>
  /\ buffer = [c \in ChannelSet |-> <<>>]
  /\ sample_count = 0
  /\ acquired = <<>> /\ retried = FALSE /\ failure = "none"
  /\ NothingAnalysed
  /\ NothingReported

\* ----------------------------------------------------------- initialisation
\* Where the run is after its "except Exception" clause printed the error:
\* the end of the script.
ExceptionHandlerResumes == "analyse"

ExceptionHandler == "error"

\* One attempt of wake-up and range configuration succeeds.  The action
\* variant opens the bus inside the attempt, the resting variant right before.
InitOk ==
  /\ pc = "init"
  /\ attempt < InitAttempts(variant)
  /\ handles' = handles + 1
  /\ initialised' = TRUE
  /\ pc' = "loop"
  /\ attempt' = 0
  /\ UNCHANGED <<variant, runVars, failure, reg, device, words, buffer, sample_count, acquired,
                 retried, psdVars, metricVars, outVars>>

\* One attempt fails, in SMBus(1) (opened = 0) or in a register write
\* (opened = 1).  init_mpu6050 sleeps and tries again while attempts remain,
\* then raises outside any try block; the resting variant has no handler at all.
InitFail ==
  /\ pc = "init"
  /\ attempt < InitAttempts(variant)
  /\ \E opened \in {0, 1} : handles' = handles + opened
  /\ IF attempt + 1 < InitAttempts(variant)
     THEN /\ attempt' = attempt + 1
          /\ UNCHANGED <<pc, failure>>
     ELSE /\ pc' = "crash"
          /\ failure' = "init"
          /\ UNCHANGED attempt
  /\ UNCHANGED <<variant, runVars, initialised, reg, device, words, buffer, sample_count, acquired,
                 retried, psdVars, metricVars, outVars>>

\* ------------------------------------------------------------- acquisition
\* The while test is true: a tick starts, the registers hold some measurement.
LoopEnter ==
  /\ pc = "loop"
  /\ WhileCond(Len(buffer["ax"]))
  /\ pc' = "read"
  /\ reg' = 1 /\ attempt' = 0 /\ words' = <<>>
  /\ device' \in {DeviceSamples[d] : d \in 1..Len(DeviceSamples)}
  /\ UNCHANGED <<variant, runVars, failure, handles, initialised, buffer, sample_count, acquired, retried,
                 psdVars, metricVars, outVars>>

\* The while test is false: "Data collection complete!"; the action variant
\* exports the raw window before it analyses.
LoopExit ==
  /\ pc = "loop"
  /\ ~WhileCond(Len(buffer["ax"]))
  /\ pc' = IF variant = "action" THEN "export" ELSE "analyse"
  /\ UNCHANGED <<variant, runVars, failure, acqVars, psdVars, metricVars, outVars>>

ReadOkAppendsAtOnce ==
  /\ pc = "read"
  /\ LET c == Channels[reg]
         b == device[c]
         x == ReadWord(variant, b[1], b[2])
     IN  /\ buffer' = [buffer EXCEPT ![c] = DequeAppend(@, Convert(c, x), WINDOW_SIZE)]
         /\ attempt' = 0
         /\ IF reg < Len(Channels)
            THEN /\ words' = Append(words, x)
                 /\ reg' = reg + 1
                 /\ UNCHANGED <<pc, sample_count, acquired>>
            ELSE /\ sample_count' = sample_count + 1
                 /\ acquired' = Append(acquired, device)
                 /\ words' = <<>>
                 /\ reg' = 0
                 /\ pc' = "loop"
  /\ UNCHANGED <<variant, runVars, failure, handles, initialised, device, retried, psdVars, metricVars,
                 outVars>>

\* A register pair is read and decoded.  After the sixth one the sample is
\* converted and appended to the six buffers and the tick ends.
ReadOk ==
  /\ pc = "read"
  /\ LET c == Channels[reg]
         b == device[c]
         w == Append(words, ReadWord(variant, b[1], b[2]))
     IN  IF reg < Len(Channels)
         THEN /\ words' = w
              /\ reg' = reg + 1
              /\ attempt' = 0
              /\ UNCHANGED <<pc, buffer, sample_count, acquired>>
         ELSE /\ buffer' = [ch \in ChannelSet |->
                   LET k == CHOOSE i \in 1..Len(Channels) : Channels[i] = ch
                   IN  DequeAppend(buffer[ch], Convert(ch, w[k]), WINDOW_SIZE)]
              /\ sample_count' = sample_count + 1
              /\ acquired' = Append(acquired, device)
              /\ words' = <<>>
              /\ reg' = 0
              /\ attempt' = 0
              /\ pc' = "loop"
  /\ UNCHANGED <<variant, runVars, failure, handles, initialised, device, retried, psdVars, metricVars,
                 outVars>>

\* bus.read_byte_data raises OSError.  read_word_2c_safe sleeps and reads the
\* pair again while attempts remain, else re-raises; read_word_2c lets the
\* first error through.  The error reaches "except Exception".
ReadFail ==
  /\ pc = "read"
  /\ IF attempt < ReadAttempts(variant) - 1
     THEN /\ attempt' = attempt + 1
          /\ retried' = TRUE
          /\ UNCHANGED <<pc, failure>>
     ELSE /\ pc' = ExceptionHandler
          /\ failure' = "read"
          /\ UNCHANGED <<attempt, retried>>
  /\ UNCHANGED <<variant, runVars, handles, initialised, reg, device, words, buffer, sample_count,
                 acquired, psdVars, metricVars, outVars>>

\* ---------------------------------------------------------------- analysis
\* Spectra the filter and Welch stage hands on in the run specification.
AnalysisSpectra ==
  { ZeroSpectrum,
    <<0, 3, 0, 0, 0, 0, 0, 0, 0>>,
    <<0, 0, 3, 0, 0, 0, 0, 0, 0>>,
    <<0, 1, 1, 0, 0, 0, 0, 0, 0>>,
    <<0, 0, 3, 0, 0, 2, 2, 2, 2>> }

AnalysisRmsAccel == {10, 40, 60}

AnalysisRmsGyro == {2, 12, 20}

\* mean jerk 2.0 and 2.1
AnalysisSmoothness == {20, 21}

\* np.savez of the raw window (action variant only)
Export ==
  /\ pc = "export"
  /\ raw_saved' = TRUE
  /\ pc' = "analyse"
  /\ UNCHANGED <<variant, runVars, failure, acqVars, psdVars, metricVars, tremor_status, console,
                 plot, report>>

ExportFail ==
  /\ pc = "export"
  /\ pc' = ExceptionHandler
  /\ failure' = "export"
  /\ UNCHANGED <<variant, runVars, acqVars, psdVars, metricVars, outVars>>

\* Magnitudes, Butterworth high-pass, Welch PSD and RMS of the filtered
\* signals.  scipy computes them; here their results are any of a few.
Analyse ==
  /\ pc = "analyse"
  /\ IF previous.ran /\ previous.variant = variant /\ previous.buffer = buffer
     THEN \* the same arrays go in, so the same results come out
          /\ psd_accel' = previous.psd_accel
          /\ psd_gyro' = previous.psd_gyro
          /\ tremor_rms_accel' = previous.tremor_rms_accel
          /\ tremor_rms_gyro' = previous.tremor_rms_gyro
          /\ smoothness_score' = previous.smoothness_score
     ELSE /\ psd_accel' \in AnalysisSpectra
          /\ psd_gyro' \in AnalysisSpectra
          /\ IF variant = "action"
             THEN /\ tremor_rms_accel' \in AnalysisRmsAccel
                  /\ tremor_rms_gyro' \in AnalysisRmsGyro
                  /\ smoothness_score' \in AnalysisSmoothness
             ELSE UNCHANGED <<tremor_rms_accel, tremor_rms_gyro, smoothness_score>>
  /\ pc' = "spectral"
  /\ UNCHANGED <<variant, runVars, failure, acqVars, metricVars, outVars>>

\* Band ratios and peak frequencies of both sensors.
Spectral ==
  /\ pc = "spectral"
  /\ tremor_ratio_accel' = tremor_ratio(psd_accel)
  /\ tremor_ratio_gyro' = tremor_ratio(psd_gyro)
  /\ peak_freq_accel' = peak_freq(psd_accel)
  /\ peak_freq_gyro' = peak_freq(psd_gyro)
  /\ pc' = "assess"
  /\ UNCHANGED <<variant, runVars, failure, acqVars, psdVars, outVars>>

AssessDistrustsRetries ==
  /\ pc = "assess"
  /\ LET a == Assessment(variant, tremor_ratio_accel, tremor_ratio_gyro,
                         peak_freq_accel, peak_freq_gyro,
                         tremor_rms_accel, tremor_rms_gyro, smoothness_score)
         st == IF retried THEN "NO SIGNIFICANT TREMOR" ELSE a.status
     IN  /\ tremor_status' = st
         /\ console' = [written |-> TRUE, status |-> st, type |-> a.type,
                        smooth |-> a.smooth]
  /\ pc' = "plot"
  /\ UNCHANGED <<variant, runVars, failure, acqVars, psdVars, metricVars, raw_saved, plot, report>>

\* OVERALL ASSESSMENT: the status is decided and printed.
Assess ==
  /\ pc = "assess"
  /\ LET a == Assessment(variant, tremor_ratio_accel, tremor_ratio_gyro,
                         peak_freq_accel, peak_freq_gyro,
                         tremor_rms_accel, tremor_rms_gyro, smoothness_score)
     IN  /\ tremor_status' = a.status
         /\ console' = [written |-> TRUE, status |-> a.status, type |-> a.type,
                        smooth |-> a.smooth]
  /\ pc' = "plot"
  /\ UNCHANGED <<variant, runVars, failure, acqVars, psdVars, metricVars, raw_saved, plot, report>>

\* The figure, titled with the status, is rendered and saved.
SavePlot ==
  /\ pc = "plot"
  /\ plot' = [written |-> TRUE, status |-> tremor_status, patient |-> patient_name]
  /\ pc' = "report"
  /\ UNCHANGED <<variant, runVars, failure, acqVars, psdVars, metricVars, tremor_status, console,
                 raw_saved, report>>

PlotFail ==
  /\ pc = "plot"
  /\ pc' = ExceptionHandler
  /\ failure' = "plot"
  /\ UNCHANGED <<variant, runVars, acqVars, psdVars, metricVars, outVars>>

\* The text report is written; "Done!".
WriteReport ==
  /\ pc = "report"
  /\ report' = [written |-> TRUE, status |-> tremor_status,
                type |-> IF variant = "resting"
                         THEN ReportType(tremor_ratio_accel, tremor_ratio_gyro,
                                         peak_freq_accel, peak_freq_gyro)
                         ELSE ""]
  /\ pc' = "done"
  /\ UNCHANGED <<variant, runVars, failure, acqVars, psdVars, metricVars, tremor_status, console,
                 raw_saved, plot>>

ReportFail ==
  /\ pc = "report"
  /\ pc' = ExceptionHandler
  /\ failure' = "report"
  /\ UNCHANGED <<variant, runVars, acqVars, psdVars, metricVars, outVars>>

\* ---------------------------------------------------------------- interrupt
\* Positions inside the try block of either program.
TryPcs == {"loop", "read", "export", "analyse", "spectral", "assess", "plot", "report"}

\* KeyboardInterrupt inside the try block: "Stopped by user".  No handler on
\* the way (except OSError, except Exception) catches it.
Interrupt ==
  /\ pc \in TryPcs
  /\ pc' = "user_abort"
  /\ failure' = "interrupt"
  /\ UNCHANGED <<variant, runVars, acqVars, psdVars, metricVars, outVars>>

\* KeyboardInterrupt before the try block: nothing catches it.
InterruptInit ==
  /\ pc = "init"
  /\ pc' = "crash"
  /\ failure' = "interrupt"
  /\ UNCHANGED <<variant, runVars, acqVars, psdVars, metricVars, outVars>>

Next ==
  \/ InitOk \/ InitFail \/ InterruptInit
  \/ LoopEnter \/ LoopExit \/ ReadOk \/ ReadFail
  \/ Export \/ ExportFail
  \/ Analyse \/ Spectral \/ Assess
  \/ SavePlot \/ PlotFail \/ WriteReport \/ ReportFail
  \/ Interrupt

\* A whole run of either program.
Spec == Init /\ [][Next]_vars

\* ----------------------------------------------- classification, all inputs
RatioVals == {0, 150, 200, 201, 300, 301, 350, 351, 400, 1000}

PeakVals == {0, 7, 8, 10, 12, 13}

RmsAccelVals == {0, 35, 36, 50, 51}

RmsGyroVals == {0, 10, 11, 18, 19}

\* n ticks of the measurement d in the buffers, as the acquisition loop
\* leaves them.
Filled(d, n) ==
  [c \in ChannelSet |-> [i \in 1..n |-> Convert(c, read_word_2c(d[c][1], d[c][2]))]]

\* A full window of one measurement.
FullWindow(d) == Filled(d, WINDOW_SIZE)

Collected ==
  /\ attempt = 0 /\ handles = 1 /\ initialised = TRUE
  /\ reg = 0 /\ device = DeviceSamples[1] /\ words = <<>>
  /\ buffer = FullWindow(DeviceSamples[1])
  /\ sample_count = WINDOW_SIZE
  /\ acquired = [i \in 1..WINDOW_SIZE |-> DeviceSamples[1]]
  /\ retried = FALSE /\ failure = "none"

\* The assessment is entered with the metrics of the window; every
\* combination of the values above, on both sides of every threshold.
InitClassify ==
  /\ variant \in Variants
  /\ pc = "assess"
  /\ DefaultRun
  /\ Collected
  /\ psd_accel = ZeroSpectrum /\ psd_gyro = ZeroSpectrum
  /\ \E a \in RatioVals : tremor_ratio_accel = [num |-> a, den |-> 1000]
  /\ \E g \in RatioVals : tremor_ratio_gyro = [num |-> g, den |-> 1000]
  /\ peak_freq_accel \in PeakVals
  /\ peak_freq_gyro \in PeakVals
  /\ IF variant = "action"
     THEN tremor_rms_accel \in RmsAccelVals /\ tremor_rms_gyro \in RmsGyroVals
     ELSE tremor_rms_accel = 0 /\ tremor_rms_gyro = 0
  /\ smoothness_score = 0
  /\ OnlyRawSaved

NextClassify == Assess \/ SavePlot \/ WriteReport

SpecClassify == InitClassify /\ [][NextClassify]_vars

\* -------------------------------------------------- spectral metrics, all PSDs
AllSpectra == [1..NBins -> 0..MaxPower]

\* The ratio and peak stage is entered with the PSD of one sensor being any
\* spectrum over the grid and the other one of the few above.
InitSpectral ==
  /\ variant \in Variants
  /\ pc = "spectral"
  /\ DefaultRun
  /\ Collected
  /\ \E s \in AllSpectra, t \in AnalysisSpectra :
       \/ psd_accel = s /\ psd_gyro = t
       \/ psd_accel = t /\ psd_gyro = s
  /\ tremor_rms_accel = 0 /\ tremor_rms_gyro = 0
  /\ smoothness_score = 0
  /\ tremor_ratio_accel = ZeroRatio /\ tremor_ratio_gyro = ZeroRatio
  /\ peak_freq_accel = 0 /\ peak_freq_gyro = 0
  /\ OnlyRawSaved

NextSpectral == Spectral

SpecSpectral == InitSpectral /\ [][NextSpectral]_vars

\* ------------------------------------- classification under a configuration
\* A configuration an operator may set instead, within the ranges the
\* comments beside the values suggest.
TunedThresholds ==
  [RATIO_SIGNIFICANT |-> 500, RATIO_MILD |-> 300,
   RMS_ACCEL_SIGNIFICANT |-> 60, RMS_ACCEL_MILD |-> 40,
   RMS_GYRO_SIGNIFICANT |-> 25, RMS_GYRO_MILD |-> 15,
   RESTING_RATIO |-> 500, RESTING_MEAN_RATIO |-> 250]

Configurations == {DefaultThresholds, TunedThresholds}

ConfigRatioVals == {0, 250, 325, 400, 600}

ConfigPeakVals == {0, 10}

ConfigRmsAccelVals == {36, 55, 70}

ConfigRmsGyroVals == {12, 20, 30}

SmoothVals == {0, 20, 21, 50}

\* The assessment is entered under either configuration.
InitConfig ==
  /\ variant \in Variants
  /\ thresholds \in Configurations
  /\ patient_name = "Unknown"
  /\ previous = NoRun
  /\ pc = "assess"
  /\ Collected
  /\ psd_accel = ZeroSpectrum /\ psd_gyro = ZeroSpectrum
  /\ \E a \in ConfigRatioVals : tremor_ratio_accel = [num |-> a, den |-> 1000]
  /\ \E g \in ConfigRatioVals : tremor_ratio_gyro = [num |-> g, den |-> 1000]
  /\ peak_freq_accel \in ConfigPeakVals
  /\ peak_freq_gyro \in ConfigPeakVals
  /\ IF variant = "action"
     THEN /\ tremor_rms_accel \in ConfigRmsAccelVals
          /\ tremor_rms_gyro \in ConfigRmsGyroVals
          /\ smoothness_score \in SmoothVals
     ELSE /\ tremor_rms_accel = 0 /\ tremor_rms_gyro = 0
          /\ smoothness_score = 0
  /\ OnlyRawSaved

NextConfig == Assess \/ SavePlot \/ WriteReport

SpecConfig == InitConfig /\ [][NextConfig]_vars

\* ------------------------------------------------------------ a second run
Patients == {"Unknown", "Ann"}

\* The program is started again after a run that went through: another name
\* may be typed, the device holds the same measurement or another one, reads
\* may need retries this time (spiral.py only).  The new process has its own
\* bus connection and empty results; when its window equals the one before,
\* what the run before computed and reported is kept for comparison.
NextRun ==
  /\ pc = "done"
  /\ \E w \in 1..Len(DeviceSamples), p \in Patients, r \in BOOLEAN :
       /\ r => variant = "action"
       /\ device' = DeviceSamples[w]
       /\ buffer' = FullWindow(DeviceSamples[w])
       /\ acquired' = [i \in 1..WINDOW_SIZE |-> DeviceSamples[w]]
       /\ patient_name' = p
       /\ retried' = r
       /\ previous' = IF buffer' = buffer
                      THEN [ran |-> TRUE, variant |-> variant, buffer |-> buffer,
                            psd_accel |-> psd_accel, psd_gyro |-> psd_gyro,
                            tremor_rms_accel |-> tremor_rms_accel,
                            tremor_rms_gyro |-> tremor_rms_gyro,
                            smoothness_score |-> smoothness_score,
                            status |-> console.status, type |-> console.type,
                            report_status |-> report.status, report_type |-> report.type,
                            plot_status |-> plot.status,
                            patient_name |-> patient_name, retried |-> retried]
                      ELSE NoRun
  /\ attempt' = 0 /\ handles' = 1 /\ initialised' = TRUE
  /\ reg' = 0 /\ words' = <<>>
  /\ sample_count' = WINDOW_SIZE
  /\ psd_accel' = ZeroSpectrum /\ psd_gyro' = ZeroSpectrum
  /\ tremor_rms_accel' = 0 /\ tremor_rms_gyro' = 0 /\ smoothness_score' = 0
  /\ tremor_ratio_accel' = ZeroRatio /\ tremor_ratio_gyro' = ZeroRatio
  /\ peak_freq_accel' = 0 /\ peak_freq_gyro' = 0
  /\ tremor_status' = ""
  /\ console' = [written |-> FALSE, status |-> "", type |-> "", smooth |-> FALSE]
  /\ raw_saved' = (variant = "action")
  /\ plot' = [written |-> FALSE, status |-> "", patient |-> ""]
  /\ report' = [written |-> FALSE, status |-> "", type |-> ""]
  /\ pc' = "analyse"
  /\ UNCHANGED <<variant, thresholds, failure>>

\* A first run has collected its window and, in spiral.py, saved the raw data.
InitRepeat ==
  /\ variant \in Variants
  /\ DefaultRun
  /\ pc = "analyse"
  /\ Collected
  /\ NothingAnalysed
  /\ OnlyRawSaved

NextRepeat == Analyse \/ Spectral \/ Assess \/ SavePlot \/ WriteReport \/ NextRun

SpecRepeat == InitRepeat /\ [][NextRepeat]_vars

\* ------------------------------------------------- decoding, all byte pairs
Bytes == 0..255

\* The last tick of a window is about to be read and every register pair
\* holds the same two bytes, any two.
InitDecode ==
  /\ variant \in Variants
  /\ DefaultRun
  /\ pc = "read"
  /\ attempt = 0 /\ handles = 1 /\ initialised = TRUE
  /\ reg = 1 /\ words = <<>>
  /\ \E high \in Bytes, low \in Bytes : device = [c \in ChannelSet |-> <<high, low>>]
  /\ buffer = Filled(DeviceSamples[1], WINDOW_SIZE - 1)
  /\ sample_count = WINDOW_SIZE - 1
  /\ acquired = [i \in 1..WINDOW_SIZE - 1 |-> DeviceSamples[1]]
  /\ retried = FALSE /\ failure = "none"
  /\ NothingAnalysed
  /\ NothingReported

NextDecode == ReadOk

SpecDecode == InitDecode /\ [][NextDecode]_vars

\* ================================================================== claims
\* The converted sample of channel c in the measurement d.
SampleOf(d, c) == Convert(c, read_word_2c(d[c][1], d[c][2]))

\* Positions from the end of the acquisition loop on.
AfterCollection == {"export", "analyse", "spectral", "assess", "plot", "report", "done"}

\* C1: every channel buffer holds exactly the samples of the ticks read
\* completely so far, one each, in acquisition order (none dropped, evicted,
\* duplicated or reordered), never more than WINDOW_SIZE of them, and once the
\* loop has ended, or any result exists, every channel holds WINDOW_SIZE.
C1_WindowComplete ==
  /\ Len(acquired) <= WINDOW_SIZE
  /\ sample_count = Len(acquired)
  /\ \A c \in ChannelSet :
       /\ Len(buffer[c]) = Len(acquired)
       /\ \A i \in 1..Len(acquired) : buffer[c][i] = SampleOf(acquired[i], c)
  /\ (pc \in AfterCollection \/ console.written \/ raw_saved)
       => \A c \in ChannelSet : Len(buffer[c]) = WINDOW_SIZE

\* C1 witness: a window of differing samples is complete after a retried read.
C1_Witness ==
  /\ pc = "analyse"
  /\ retried
  /\ Len(buffer["gz"]) = WINDOW_SIZE
  /\ acquired[1] # acquired[2]

\* C2: a run is aborted by a failed read only when that read has used its
\* whole retry bound; a single failure is retried, in either variant.
C2_ReadRetriedBeforeAbort ==
  failure = "read" => attempt = read_max_retries - 1

\* C3: after a fatal failure of initialisation or of a read no status has
\* been computed, printed, plotted or written to a report.
C3_NoResultAfterFatal ==
  failure \in {"init", "read"} =>
    /\ tremor_status = ""
    /\ ~console.written
    /\ ~plot.written
    /\ ~report.written

\* C3 witness: the third attempt of a read failed after a sample was taken.
C3_Witness ==
  /\ failure = "read"
  /\ pc = "error"
  /\ attempt = read_max_retries - 1
  /\ Len(acquired) >= 1

\* C4: no read starts before initialisation succeeded; initialisation is
\* given up only after its retry bound is used, in either variant, and then
\* no sample has been read.
C4_InitRetriedBeforeFatal ==
  /\ (pc \in TryPcs \/ reg # 0 \/ sample_count > 0) => initialised
  /\ failure = "init" =>
       /\ attempt = init_max_retries - 1
       /\ ~initialised
       /\ sample_count = 0 /\ words = <<>> /\ acquired = <<>>

\* C5: an interrupt during acquisition or analysis ends the run as
\* "user_abort", not as an error, and then nothing of the interrupted window
\* has been reported: no status, plot, report or raw export.
C5_NoPartialResultAfterAbort ==
  /\ (failure = "interrupt" /\ initialised) => pc = "user_abort"
  /\ pc = "user_abort" =>
       /\ ~console.written
       /\ ~plot.written
       /\ ~report.written
       /\ ~raw_saved

\* The ratio and frequency tests of the classification claims, on metrics
\* whose ratios are given in thousandths (den = 1000).
AnyRatioAbove(milli) == tremor_ratio_accel.num > milli \/ tremor_ratio_gyro.num > milli

AnyPeakInBand ==
  \/ (8 <= peak_freq_accel /\ peak_freq_accel <= 12)
  \/ (8 <= peak_freq_gyro /\ peak_freq_gyro <= 12)

\* C6: the resting status is one of three; TREMOR DETECTED iff (a ratio > 0.3)
\* and (a peak in 4..6 Hz); else POSSIBLE TREMOR iff the mean ratio > 0.15;
\* else NO TREMOR.
C6_RestingPolicy ==
  (variant = "resting" /\ console.written) =>
    LET detected == AnyRatioAbove(300) /\ AnyPeakInBand
        possible == ~detected /\ tremor_ratio_accel.num + tremor_ratio_gyro.num > 2 * 150
    IN  /\ tremor_status \in {"TREMOR DETECTED", "POSSIBLE TREMOR", "NO TREMOR"}
        /\ tremor_status = "TREMOR DETECTED" <=> detected
        /\ tremor_status = "POSSIBLE TREMOR" <=> possible
        /\ tremor_status = "NO TREMOR" <=> (~detected /\ ~possible)
        /\ console.status = tremor_status

\* C6 witness: detected with the ratio met by the accelerometer only and the
\* frequency by the gyroscope only.
C6_Witness ==
  /\ variant = "resting" /\ console.written
  /\ tremor_status = "TREMOR DETECTED"
  /\ tremor_ratio_accel.num = 301 /\ tremor_ratio_gyro.num = 0
  /\ peak_freq_accel = 0 /\ peak_freq_gyro = 10

\* C7: the action status is one of three; SIGNIFICANT iff a peak in 4..6 Hz and
\* (a ratio > 0.35 or rms_accel > 0.50 or rms_gyro > 18); else MILD iff a peak
\* in 4..6 Hz and (a ratio > 0.20 or rms_accel > 0.35 or rms_gyro > 10); else
\* NO SIGNIFICANT TREMOR.
C7_ActionPolicy ==
  (variant = "action" /\ console.written) =>
    LET significant == AnyPeakInBand /\ (\/ AnyRatioAbove(350)
                                         \/ tremor_rms_accel > 50
                                         \/ tremor_rms_gyro > 18)
        mild == ~significant /\ AnyPeakInBand /\ (\/ AnyRatioAbove(200)
                                                  \/ tremor_rms_accel > 35
                                                  \/ tremor_rms_gyro > 10)
    IN  /\ tremor_status \in {"SIGNIFICANT ACTION TREMOR", "MILD ACTION TREMOR",
                              "NO SIGNIFICANT TREMOR"}
        /\ tremor_status = "SIGNIFICANT ACTION TREMOR" <=> significant
        /\ tremor_status = "MILD ACTION TREMOR" <=> mild
        /\ tremor_status = "NO SIGNIFICANT TREMOR" <=> (~significant /\ ~mild)
        /\ ~AnyPeakInBand => tremor_status = "NO SIGNIFICANT TREMOR"
        /\ console.status = tremor_status

\* C7 witness: ratio_accel = 0.40 with peak_freq_gyro = 5.0 Hz and nothing
\* else met is SIGNIFICANT.
C7_Witness ==
  /\ variant = "action" /\ console.written
  /\ tremor_status = "SIGNIFICANT ACTION TREMOR"
  /\ tremor_ratio_accel.num = 400 /\ tremor_ratio_gyro.num = 0
  /\ peak_freq_accel = 0 /\ peak_freq_gyro = 10
  /\ tremor_rms_accel = 0 /\ tremor_rms_gyro = 0

\* C8: a type is shown iff the status is TREMOR DETECTED; it is ROTATIONAL iff
\* ratio_gyro > ratio_accel, LINEAR otherwise; the report carries the type the
\* console showed.
C8_TremorType ==
  (variant = "resting" /\ console.written) =>
    LET rotational == tremor_ratio_gyro.num > tremor_ratio_accel.num
    IN  /\ console.type # "" <=> tremor_status = "TREMOR DETECTED"
        /\ console.type = "ROTATIONAL" <=> (tremor_status = "TREMOR DETECTED" /\ rotational)
        /\ console.type = "LINEAR" <=> (tremor_status = "TREMOR DETECTED" /\ ~rotational)
        /\ report.written => (report.type = console.type /\ report.status = console.status)

\* C8 witness: equal ratios, detected, LINEAR on the console and in the report.
C8_Witness ==
  /\ variant = "resting"
  /\ report.written
  /\ tremor_ratio_accel = tremor_ratio_gyro
  /\ console.type = "LINEAR" /\ report.type = "LINEAR"

Tier(status) ==
  IF status \in {"SIGNIFICANT ACTION TREMOR", "TREMOR DETECTED"} THEN 2
  ELSE IF status \in {"MILD ACTION TREMOR", "POSSIBLE TREMOR"} THEN 1
  ELSE 0

\* The tier of the status assigned with the four scalar inputs replaced.
TierWith(a, g, rmsa, rmsg) ==
  Tier(Classify(variant, [num |-> a, den |-> 1000], [num |-> g, den |-> 1000],
                peak_freq_accel, peak_freq_gyro, rmsa, rmsg))

\* C9: with the peak frequencies and the other inputs fixed, a larger value of
\* one ratio or one RMS never gives a lower tier than the one assigned.
C9_Monotone ==
  pc = "plot" =>
    LET a == tremor_ratio_accel.num
        g == tremor_ratio_gyro.num
        t == Tier(tremor_status)
    IN  /\ \A x \in RatioVals : x > a => TierWith(x, g, tremor_rms_accel, tremor_rms_gyro) >= t
        /\ \A x \in RatioVals : x > g => TierWith(a, x, tremor_rms_accel, tremor_rms_gyro) >= t
        /\ \A x \in RmsAccelVals : x > tremor_rms_accel => TierWith(a, g, x, tremor_rms_gyro) >= t
        /\ \A x \in RmsGyroVals : x > tremor_rms_gyro => TierWith(a, g, tremor_rms_accel, x) >= t

\* C9 witness: a MILD assessment that a larger ratio alone turns SIGNIFICANT
\* and a larger rms alone turns SIGNIFICANT.
C9_Witness ==
  /\ pc = "plot" /\ variant = "action"
  /\ tremor_status = "MILD ACTION TREMOR"
  /\ \E x \in RatioVals : /\ x > tremor_ratio_accel.num
                          /\ TierWith(x, tremor_ratio_gyro.num, tremor_rms_accel,
                                      tremor_rms_gyro) = 2
  /\ \E x \in RmsGyroVals : /\ x > tremor_rms_gyro
                            /\ TierWith(tremor_ratio_accel.num, tremor_ratio_gyro.num,
                                        tremor_rms_accel, x) = 2

\* Power of the bins whose frequency lies in [lo, hi] Hz.
PowerIn(psd, lo, hi) ==
  SumOver(psd, {i \in 1..NBins : 2 * lo <= Freqs[i] /\ Freqs[i] <= 2 * hi})

\* C10 as stated: each ratio lies in [0, 1] and is 0 exactly when the power in
\* [0, 15] Hz is 0.
C10_ZeroIffNoTotalPower ==
  pc = "assess" =>
    /\ 0 <= tremor_ratio_accel.num /\ tremor_ratio_accel.num <= tremor_ratio_accel.den
    /\ 0 <= tremor_ratio_gyro.num /\ tremor_ratio_gyro.num <= tremor_ratio_gyro.den
    /\ tremor_ratio_accel.num = 0 <=> PowerIn(psd_accel, 0, 15) = 0
    /\ tremor_ratio_gyro.num = 0 <=> PowerIn(psd_gyro, 0, 15) = 0

RatioClaim(r, psd) ==
  /\ r.den > 0
  /\ 0 <= r.num /\ r.num <= r.den
  /\ r.num = 0 <=> PowerIn(psd, 4, 6) = 0
  /\ PowerIn(psd, 0, 15) = 0 => r = [num |-> 0, den |-> 1]
  /\ PowerIn(psd, 0, 15) > 0 => r = [num |-> PowerIn(psd, 4, 6), den |-> PowerIn(psd, 0, 15)]

\* C10 amended: each ratio is the power in [4, 6] Hz over the power in
\* [0, 15] Hz, lies in [0, 1], is 0 exactly when the power in [4, 6] Hz is 0,
\* and is the constant 0, with no division, when the power in [0, 15] Hz is 0.
C10_RatioBounds ==
  pc = "assess" =>
    /\ RatioClaim(tremor_ratio_accel, psd_accel)
    /\ RatioClaim(tremor_ratio_gyro, psd_gyro)

\* C10 witness: power below 15 Hz but none in 4..6 Hz gives ratio 0; and a
\* ratio of exactly 1 next to it.
C10_Witness ==
  /\ pc = "assess"
  /\ PowerIn(psd_accel, 0, 15) > 0 /\ PowerIn(psd_accel, 4, 6) = 0
  /\ tremor_ratio_accel.num = 0
  /\ tremor_ratio_gyro.num = tremor_ratio_gyro.den /\ tremor_ratio_gyro.num > 0

\* The 16-bit two's-complement value of the register pair b = <<high, low>>.
Signed16(b) ==
  LET v == b[1] * 256 + b[2]
  IN  IF v < 32768 THEN v ELSE v - 65536

\* C11: every word decoded in this tick is the two's-complement value of its
\* register pair, within -32768..32767, in either variant's reader; the sample
\* appended is raw * 9.81 / 16384 for acceleration (raw * 981 in units of
\* 1/1638400 m/s^2) and raw / 131 for angular rate (raw * 10 in units of
\* 1/1310 deg/s).
C11_DecodeAndConvert ==
  /\ \A k \in 1..Len(words) :
       /\ words[k] = Signed16(device[Channels[k]])
       /\ -32768 <= words[k] /\ words[k] <= 32767
  /\ (pc = "loop" /\ sample_count > 0) =>
       /\ \A c \in {"ax", "ay", "az"} :
            buffer[c][Len(buffer[c])] = Signed16(device[c]) * 981
       /\ \A c \in {"gx", "gy", "gz"} :
            buffer[c][Len(buffer[c])] = Signed16(device[c]) * 10

\* C11 witness: the retrying reader decoded 0x8000 to -32768 and the sample
\* is in the window.
C11_Witness ==
  /\ variant = "action" /\ pc = "loop"
  /\ device["ax"] = <<128, 0>>
  /\ buffer["ax"][Len(buffer["ax"])] = -32768 * 981
  /\ buffer["gz"][Len(buffer["gz"])] = -32768 * 10

\* f is the lowest frequency, among the bins up to 10 Hz, at which psd has its
\* maximum over those bins.
LowestPeak(f, psd) ==
  \E i \in 1..NBins :
    /\ Freqs[i] = f /\ f <= 2 * 10
    /\ \A j \in 1..NBins : Freqs[j] <= 2 * 10 =>
         /\ psd[j] <= psd[i]
         /\ Freqs[j] < f => psd[j] < psd[i]

\* C12: the ratio and peak stage has a bin to take the maximum over and never
\* divides by zero (nothing raises); an all-zero PSD gives ratio 0 and the lowest bin, 0 Hz,
\* as peak; in general the peak is the lowest frequency holding the maximum
\* among the bins up to 10 Hz.
C12_ZeroSignalAndTies ==
  /\ pc = "spectral" =>
       /\ {i \in 1..NBins : Freqs[i] <= 2 * 10} # {}
       /\ tremor_ratio(psd_accel).den > 0 /\ tremor_ratio(psd_gyro).den > 0
  /\ pc = "assess" =>
       /\ psd_accel = ZeroSpectrum =>
            (tremor_ratio_accel = [num |-> 0, den |-> 1] /\ peak_freq_accel = 0)
       /\ psd_gyro = ZeroSpectrum =>
            (tremor_ratio_gyro = [num |-> 0, den |-> 1] /\ peak_freq_gyro = 0)
       /\ LowestPeak(peak_freq_accel, psd_accel)
       /\ LowestPeak(peak_freq_gyro, psd_gyro)

\* C12 witness: an all-zero accelerometer PSD analysed next to a gyroscope PSD
\* whose maximum is shared by the 3.5 Hz and the 4 Hz bin.
C12_Witness ==
  /\ pc = "assess"
  /\ psd_accel = ZeroSpectrum
  /\ tremor_ratio_accel.num = 0 /\ peak_freq_accel = 0
  /\ psd_gyro = <<0, 1, 1, 0, 0, 0, 0, 0, 0>>
  /\ peak_freq_gyro = 7

\* C14 as stated: when rendering or saving the plot, or writing the report,
\* fails, the status assessed before is still what the run puts out, and the
\* other artifact carries it.
C14_ReportingIndependent ==
  /\ failure \in {"plot", "report"} =>
       (console.written /\ console.status = tremor_status /\ tremor_status # "")
  /\ failure = "plot" => (report.written /\ report.status = tremor_status)
  /\ failure = "report" => (plot.written /\ plot.status = tremor_status)

\* C17 as stated: one bus connection per run, opened before any read, also
\* when initialisation is retried; never a second one while the first is open
\* (no connection is ever closed).
C17_SingleHandle ==
  /\ handles <= 1
  /\ (reg # 0 \/ sample_count > 0) => handles = 1

\* C18: at every tick boundary and after a fatal read the six buffers have one
\* length, the number of ticks read completely, at most WINDOW_SIZE; entry i of
\* every channel comes from one and the same measurement; so a full ax buffer
\* means six full buffers.
C18_ChannelsAligned ==
  pc # "read" =>
    /\ \A c \in ChannelSet :
         /\ Len(buffer[c]) = Len(buffer["ax"])
         /\ Len(buffer[c]) = sample_count
         /\ Len(buffer[c]) <= WINDOW_SIZE
    /\ \A i \in 1..Len(buffer["ax"]) :
         \E d \in 1..Len(DeviceSamples) :
           \A c \in ChannelSet : buffer[c][i] = SampleOf(DeviceSamples[d], c)
    /\ ~WhileCond(Len(buffer["ax"])) => \A c \in ChannelSet : Len(buffer[c]) = WINDOW_SIZE

\* C18 witness: the read of gyro_x failed for good in the second tick, after
\* the three accelerometer words of that tick were read.
C18_Witness ==
  /\ failure = "read" /\ pc = "error"
  /\ reg = 4 /\ Len(words) = 3
  /\ sample_count = 1
  /\ Len(buffer["ax"]) = 1 /\ Len(buffer["gz"]) = 1

\* The decision tables of both programs with every threshold taken from the
\* configuration t.
ConfiguredDetected(t, ra, rg, pfa, pfg) ==
  /\ (RatioGT(ra, t.RESTING_RATIO) \/ RatioGT(rg, t.RESTING_RATIO))
  /\ (InTremorBand(pfa) \/ InTremorBand(pfg))

ConfiguredStatus(v, t, ra, rg, pfa, pfg, rmsa, rmsg) ==
  IF v = "resting"
  THEN IF ConfiguredDetected(t, ra, rg, pfa, pfg) THEN "TREMOR DETECTED"
       ELSE IF CombinedGT(ra, rg, t.RESTING_MEAN_RATIO) THEN "POSSIBLE TREMOR"
       ELSE "NO TREMOR"
  ELSE LET band == InTremorBand(pfa) \/ InTremorBand(pfg)
           high == \/ RatioGT(ra, t.RATIO_SIGNIFICANT) \/ RatioGT(rg, t.RATIO_SIGNIFICANT)
                   \/ rmsa > t.RMS_ACCEL_SIGNIFICANT \/ rmsg > t.RMS_GYRO_SIGNIFICANT
           mild == \/ RatioGT(ra, t.RATIO_MILD) \/ RatioGT(rg, t.RATIO_MILD)
                   \/ rmsa > t.RMS_ACCEL_MILD \/ rmsg > t.RMS_GYRO_MILD
       IN  IF band /\ high THEN "SIGNIFICANT ACTION TREMOR"
           ELSE IF band /\ mild THEN "MILD ACTION TREMOR"
           ELSE "NO SIGNIFICANT TREMOR"

\* C15 as stated: every threshold of either policy comes from the
\* configuration, so under any configuration the status on the console and in
\* the report, and the report's type line, are those of the decision table
\* evaluated with the configured thresholds.
C15_ThresholdsFromConfig ==
  LET st == ConfiguredStatus(variant, thresholds, tremor_ratio_accel, tremor_ratio_gyro,
                             peak_freq_accel, peak_freq_gyro,
                             tremor_rms_accel, tremor_rms_gyro)
  IN  /\ console.written => console.status = st
      /\ report.written =>
           /\ report.status = st
           /\ variant = "resting" =>
                (report.type # "" <=> ConfiguredDetected(thresholds, tremor_ratio_accel,
                                                         tremor_ratio_gyro, peak_freq_accel,
                                                         peak_freq_gyro))

\* C16: in the action program the smoothness score decides nothing but its
\* own note: with the ratios, peaks and RMS values of this analysis every
\* score gives the status assigned, and the note on reduced smoothness is
\* printed exactly when the score is above 2.0, whatever the status.
C16_SmoothnessAdvisory ==
  (variant = "action" /\ console.written) =>
    /\ console.smooth <=> smoothness_score > 20
    /\ \A s \in SmoothVals :
         Assessment(variant, tremor_ratio_accel, tremor_ratio_gyro,
                    peak_freq_accel, peak_freq_gyro,
                    tremor_rms_accel, tremor_rms_gyro, s).status = tremor_status
    /\ report.written => report.status = console.status

\* C16 witness: the note is printed under a status of no tremor, and the
\* score one tenth lower would not have printed it.
C16_Witness ==
  /\ variant = "action" /\ report.written
  /\ smoothness_score = 21 /\ console.smooth
  /\ tremor_status = "NO SIGNIFICANT TREMOR"
  /\ ~Assessment(variant, tremor_ratio_accel, tremor_ratio_gyro,
                 peak_freq_accel, peak_freq_gyro,
                 tremor_rms_accel, tremor_rms_gyro, 20).smooth

====
